---- MODULE Spec2Model ----
\* Package config (src/config.go): a process-wide, load-once configuration
\* store.  Load() scans the directories of CONFIG_PATH under a sync.Once and
\* publishes a map from file base name to content; the accessors call Load()
\* and then read the map.
EXTENDS Integers, Sequences, FiniteSets, TLC

VARIABLES
    env,      \* the environment variable CONFIG_PATH: [set, val]
    fs,       \* the filesystem: directory name -> [ok, ent]
    changes,  \* how many times env or fs were changed since process start
    done,     \* pkgOnce: the done flag of sync.Once
    mu,       \* pkgOnce: the holder of the Once's mutex, or NoCaller
    pkgVal,   \* the published store (a Go map, nil until published)
    pkgErr,   \* the recorded load error (an error chain, <<>> is nil)
    pc,       \* per caller: where it is in its current call
    call,     \* per caller: the call in progress, [op, n]
    ret,      \* per caller: what its last completed call returned
    loc,      \* per caller: the locals of the closure passed to pkgOnce.Do
    scans     \* the calls under which the closure was entered, in order (capped)

vars == <<env, fs, changes, done, mu, pkgVal, pkgErr, pc, call, ret, loc, scans>>

-----------------------------------------------------------------------------
\* Bounds of the model.

\* The largest number of concurrent callers.
NumCallers == 2
\* The longest search path (number of directories in CONFIG_PATH).
MaxPathLen == 2
\* How many changes of the environment or filesystem happen after the load.
MaxChanges == 1
\* The record of closure executions keeps this many.
ScanCap == 2

-----------------------------------------------------------------------------
\* Values.

NoCaller == 0

\* File names and directory names.  NameOrder is the order ioutil.ReadDir
\* sorts a listing in (by file name).
NameOrder == <<"a", "b">>
Names == {NameOrder[i] : i \in 1..Len(NameOrder)}
DirIds == {"d1", "d2"}

\* File content is a sequence of tokens [t, v]; the text of a file is the
\* concatenation of its tokens.
Tok(t, v) == [t |-> t, v |-> v]
LBrace == Tok("punct", "{")
RBrace == Tok("punct", "}")
Colon == Tok("punct", ":")
Comma == Tok("punct", ",")
Str(s) == Tok("str", s)
Num == Tok("num", "1234567890")
Null == Tok("null", "null")
Word(w) == Tok("word", w)

\* testdata/1/bytes, testdata/2/string, testdata/1/user.json,
\* testdata/2/userpass.json of the tests, and neighbours of them.
SBytes == <<Num>>
SString == <<Word("Hello,"), Word("World!")>>
SUser == <<LBrace, Str("username"), Colon, Str("user"), RBrace>>
SUserPass ==
    <<LBrace, Str("username"), Colon, Str("user"), Comma,
      Str("password"), Colon, Str("pass"), RBrace>>
SEmptyPass ==
    <<LBrace, Str("username"), Colon, Str("user"), Comma,
      Str("password"), Colon, Str(""), RBrace>>
SPassOnly == <<LBrace, Str("password"), Colon, Str("pass"), RBrace>>
SEmptyObject == <<LBrace, RBrace>>
SNull == <<Null>>
SPlainString == <<Str("user")>>
SNumUser == <<LBrace, Str("username"), Colon, Num, RBrace>>
STruncated == <<LBrace, Str("username"), Colon, Str("user")>>
SHttpUrl == <<Word("http"), Colon, Word("//google.com?q=tuukka")>>
SEmptyFile == <<>>

Samples ==
    {SBytes, SString, SUser, SUserPass, SEmptyPass, SPassOnly, SEmptyObject,
     SNull, SPlainString, SNumUser, STruncated, SHttpUrl, SEmptyFile}

\* A Go []byte: nil, or a (possibly empty) sequence.
NilBytes == [isNil |-> TRUE, data |-> <<>>]
BytesOf(d) == [isNil |-> FALSE, data |-> d]

\* A Go map[string][]byte: nil, or slots by key.
NoSlot == [has |-> FALSE, v |-> NilBytes]
NilMap == [isNil |-> TRUE, slot |-> [n \in Names |-> NoSlot]]
EmptyMap == [isNil |-> FALSE, slot |-> [n \in Names |-> NoSlot]]
\* m[k] (the one-value form): the zero value, nil, for a missing key.
MapGet(m, k) == m.slot[k].v
\* v, ok := m[k]
MapHas(m, k) == m.slot[k].has
\* m[k] = v
MapPut(m, k, v) ==
    [isNil |-> FALSE, slot |-> [m.slot EXCEPT ![k] = [has |-> TRUE, v |-> v]]]
Keys(m) == {n \in Names : MapHas(m, n)}

\* A Go error is a chain of layers, the outermost first; <<>> is nil.
NoErr == <<>>
Layer(k, a) == [k |-> k, a |-> a]
Wrap(layer, err) == <<layer>> \o err
\* os.ErrNotExist
ErrNotExist == <<Layer("notexist", "")>>
\* The *PathError ioutil.ReadDir returns for p.
OsError(p) == <<Layer("os", p)>>

-----------------------------------------------------------------------------
\* The environment and the filesystem.

\* os.PathListSeparator
ListSep == ":"

\* The zero value of `var DefaultPath string`.
DefaultPath == <<>>

\* Path(): the value of CONFIG_PATH, or DefaultPath when it is not set.  A
\* path string is a sequence of directory names and separators.
Path == IF ~env.set THEN DefaultPath ELSE env.val

\* filepath.SplitList: the empty string gives the empty list; otherwise the
\* elements between separators, an empty element being the name "".
RECURSIVE SplitFrom(_, _, _)
SplitFrom(s, i, cur) ==
    IF i > Len(s) THEN <<cur>>
    ELSE IF s[i] = ListSep THEN <<cur>> \o SplitFrom(s, i + 1, "")
    ELSE SplitFrom(s, i + 1, s[i])
SplitList(s) == IF s = <<>> THEN <<>> ELSE SplitFrom(s, 1, "")

\* strings.Join(dirs, string(os.PathListSeparator)), as TestMain builds the path.
RECURSIVE JoinList(_)
JoinList(ds) ==
    IF ds = <<>> THEN <<>>
    ELSE IF Len(ds) = 1 THEN <<ds[1]>>
    ELSE <<ds[1], ListSep>> \o JoinList(Tail(ds))

\* Directory entries.
NoEntry == [kind |-> "none", ok |-> FALSE, data |-> <<>>]
SubDir == [kind |-> "dir", ok |-> FALSE, data |-> <<>>]
Unreadable == [kind |-> "file", ok |-> FALSE, data |-> <<>>]
File(d) == [kind |-> "file", ok |-> TRUE, data |-> d]

\* A directory that cannot be listed (missing, or no permission), and a
\* listable one.  The name "" never names a directory.
MissingDir == [ok |-> FALSE, ent |-> [n \in Names |-> NoEntry]]
Dir(e) == [ok |-> TRUE, ent |-> e]
FsNames == DirIds \cup {""}

\* ioutil.ReadDir(p): whether it succeeds, and the listing sorted by name;
\* each FileInfo carries Name() and IsDir().
ReadDirOk(p) == fs[p].ok
ReadDir(p) ==
    LET present == SelectSeq(NameOrder, LAMBDA n : fs[p].ent[n].kind # "none")
    IN  [i \in 1..Len(present) |->
            [name |-> present[i], isDir |-> fs[p].ent[present[i]].kind = "dir"]]

\* filepath.Join(p, name) and filepath.Base(f): a file path is <<dir, name>>.
Join(p, name) == <<p, name>>
Base(f) == f[Len(f)]

\* ioutil.ReadFile(f): fails on a missing entry, a directory, an unreadable
\* file; otherwise returns the content, never a nil slice.
ReadFileOk(f) ==
    /\ fs[f[1]].ok
    /\ fs[f[1]].ent[f[2]].kind = "file"
    /\ fs[f[1]].ent[f[2]].ok
ReadFile(f) == BytesOf(fs[f[1]].ent[f[2]].data)

-----------------------------------------------------------------------------
\* The decoders the accessors call, on token sequences.  They cover the
\* shapes in Samples: scalars, flat objects with scalar members, plain text.

IsScalar(tok) == tok.t \in {"str", "num", "null"}
BadJson == [ok |-> FALSE, kind |-> "", ms |-> <<>>]

\* The members of an object from position i up to the closing brace.
RECURSIVE ParseMembers(_, _)
ParseMembers(d, i) ==
    IF i + 3 > Len(d) THEN BadJson
    ELSE IF ~(d[i].t = "str" /\ d[i + 1] = Colon /\ IsScalar(d[i + 2])) THEN BadJson
    ELSE LET m == [k |-> d[i].v, v |-> d[i + 2]]
         IN  IF d[i + 3] = RBrace
             THEN IF i + 3 = Len(d)
                  THEN [ok |-> TRUE, kind |-> "obj", ms |-> <<m>>]
                  ELSE BadJson
             ELSE IF d[i + 3] = Comma
             THEN LET r == ParseMembers(d, i + 4)
                  IN  [ok |-> r.ok, kind |-> r.kind,
                       ms |-> IF r.ok THEN <<m>> \o r.ms ELSE <<>>]
             ELSE BadJson

\* encoding/json's syntax check and value kind of a text.
JsonParse(d) ==
    IF Len(d) = 1 /\ IsScalar(d[1]) THEN [ok |-> TRUE, kind |-> d[1].t, ms |-> <<>>]
    ELSE IF Len(d) >= 2 /\ d[1] = LBrace
    THEN IF d[2] = RBrace
         THEN IF Len(d) = 2 THEN [ok |-> TRUE, kind |-> "obj", ms |-> <<>>] ELSE BadJson
         ELSE ParseMembers(d, 2)
    ELSE BadJson

\* type userinfo struct { Username, Password string }, zero value.
ZeroUserinfo == [Username |-> "", Password |-> "", typeErr |-> FALSE]

\* One member decoded into the struct: a string sets the field, null leaves
\* it, another kind is an UnmarshalTypeError; unknown keys are ignored.
SetField(ui, m) ==
    IF m.k \notin {"username", "password"} \/ m.v.t = "null" THEN ui
    ELSE IF m.v.t # "str" THEN [ui EXCEPT !.typeErr = TRUE]
    ELSE IF m.k = "username" THEN [ui EXCEPT !.Username = m.v.v]
    ELSE [ui EXCEPT !.Password = m.v.v]

RECURSIVE DecodeFields(_, _, _)
DecodeFields(ms, i, ui) ==
    IF i > Len(ms) THEN ui ELSE DecodeFields(ms, i + 1, SetField(ui, ms[i]))

\* json.Unmarshal(b, &ui) with ui a userinfo: a syntax error, a non-object
\* other than null, or a field of the wrong kind is an error.
UnmarshalUserinfo(b) ==
    LET p == JsonParse(b.data)
    IN  IF ~p.ok THEN [err |-> TRUE, ui |-> ZeroUserinfo]
        ELSE IF p.kind = "null" THEN [err |-> FALSE, ui |-> ZeroUserinfo]
        ELSE IF p.kind # "obj" THEN [err |-> TRUE, ui |-> ZeroUserinfo]
        ELSE LET ui == DecodeFields(p.ms, 1, ZeroUserinfo)
             IN  [err |-> ui.typeErr, ui |-> ui]

\* json.Unmarshal(b, v) with v a pointer to an empty interface: only a
\* syntax error fails.
UnmarshalJsonOk(b) == JsonParse(b.data).ok

\* yaml.Unmarshal(b, v) with v a pointer to an empty interface: a text that
\* opens a flow mapping must close it as JSON does; other texts of Samples
\* are plain scalars or empty documents.
UnmarshalYamlOk(b) ==
    IF b.data # <<>> /\ b.data[1] = LBrace THEN JsonParse(b.data).ok ELSE TRUE

\* url.Parse(s): a text opening with a scheme word and a colon has that
\* scheme; without a scheme, a colon in the first path segment is an error
\* (no text of Samples holds a slash before a colon).
Schemes == {"http"}
HasScheme(d) == Len(d) >= 2 /\ d[1].t = "word" /\ d[1].v \in Schemes /\ d[2] = Colon
UrlParseOk(d) == HasScheme(d) \/ \A i \in 1..Len(d) : d[i] # Colon

\* Returned values, one record shape for every accessor.
NoVal ==
    [tag |-> "none", data |-> <<>>, user |-> "", pass |-> "", passSet |-> FALSE,
     scheme |-> ""]
ValBytes(b) ==
    IF b.isNil THEN [NoVal EXCEPT !.tag = "nilbytes"]
    ELSE [NoVal EXCEPT !.tag = "bytes", !.data = b.data]
\* string(b)
ValString(b) == [NoVal EXCEPT !.tag = "string", !.data = b.data]
ValNilPtr == [NoVal EXCEPT !.tag = "nilptr"]
\* url.User(u) and url.UserPassword(u, p)
ValUser(u) == [NoVal EXCEPT !.tag = "userinfo", !.user = u]
ValUserPassword(u, p) ==
    [NoVal EXCEPT !.tag = "userinfo", !.user = u, !.pass = p, !.passSet = TRUE]
ValUrl(d) ==
    [NoVal EXCEPT !.tag = "url", !.scheme = IF HasScheme(d) THEN d[1].v ELSE "",
                  !.data = IF HasScheme(d) THEN SubSeq(d, 3, Len(d)) ELSE d]

-----------------------------------------------------------------------------
\* Callers.

Callers == DOMAIN pc

Accessors == {"Bytes", "String", "Userinfo", "Url", "InterfaceJson", "InterfaceYaml"}
Ops == {"Load"} \cup Accessors
\* With several callers in flight the calls are drawn from these.
SharedOps == {"Load", "Bytes", "Userinfo"}

NoCall == [op |-> "", n |-> ""]
NoRet == [op |-> "", n |-> "", err |-> NoErr, val |-> NoVal]
NoLoc == [result |-> NilMap, ps |-> <<>>, i |-> 0, fis |-> <<>>, j |-> 0]

Returned(c, err, val) == [op |-> c.op, n |-> c.n, err |-> err, val |-> val]

\* A caller starts Load() or an accessor for the name n (Load takes none).
Call(t, op, n) ==
    /\ pc[t] = "idle"
    /\ Cardinality(Callers) > 1 => op \in SharedOps
    /\ (op = "Load") = (n = "")
    /\ pc' = [pc EXCEPT ![t] = "once"]
    /\ call' = [call EXCEPT ![t] = [op |-> op, n |-> n]]
    /\ ret' = [ret EXCEPT ![t] = NoRet]
    /\ UNCHANGED <<env, fs, changes, done, mu, pkgVal, pkgErr, loc, scans>>

-----------------------------------------------------------------------------
\* pkgOnce.Do(func() {...}): sync.Once.

\* Once.Do's fast path: a caller that reads done set skips the closure; any
\* other caller goes for the mutex, also while the closure is running.
\* (A Once that also skips while another caller holds the mutex.)
OnceSkipsWhenBusy == done \/ mu # NoCaller
OnceSkips == done

OnceFast(t) ==
    /\ pc[t] = "once"
    /\ pc' = [pc EXCEPT ![t] = IF OnceSkips THEN "check" ELSE "lock"]
    /\ UNCHANGED <<env, fs, changes, done, mu, pkgVal, pkgErr, call, ret, loc, scans>>

\* Whether the holder of the mutex runs the closure: only if done is still
\* unset.  (A Once that does not read done again runs it always.)
OnceMustRunAlways == TRUE
OnceMustRun == ~done

\* The first lines of the closure: result := map[string][]byte{}, p := Path(),
\* ps := filepath.SplitList(p), var files.
ClosureEntry == [NoLoc EXCEPT !.result = EmptyMap, !.ps = SplitList(Path), !.i = 1]

\* Once.Do's slow path: take the mutex, read done again; run the closure
\* while holding the mutex, or release it at once.
OnceLock(t) ==
    /\ pc[t] = "lock"
    /\ mu = NoCaller
    /\ IF OnceMustRun
       THEN /\ mu' = t
            /\ pc' = [pc EXCEPT ![t] = "dir"]
            /\ loc' = [loc EXCEPT ![t] = ClosureEntry]
            /\ scans' = IF Len(scans) < ScanCap THEN Append(scans, call[t].op) ELSE scans
       ELSE /\ pc' = [pc EXCEPT ![t] = "check"]
            /\ UNCHANGED <<mu, loc, scans>>
    /\ UNCHANGED <<env, fs, changes, done, pkgVal, pkgErr, call, ret>>

\* What the deferred store writes to done: set, however the closure ended.
\* (A Once that is set only by a closure that recorded no error.)
OnceDoneOnSuccess == pkgErr = NoErr
OnceDone == TRUE

\* The closure has returned: the deferred store of done and the unlock.
OnceUnlock(t) ==
    /\ pc[t] = "unlock"
    /\ done' = OnceDone
    /\ mu' = NoCaller
    /\ loc' = [loc EXCEPT ![t] = NoLoc]
    /\ pc' = [pc EXCEPT ![t] = "check"]
    /\ UNCHANGED <<env, fs, changes, pkgVal, pkgErr, call, ret, scans>>

-----------------------------------------------------------------------------
\* The closure of Load: the scan.

ErrReadDir(p) == Wrap(Layer("readdir", p), OsError(p))
ErrDuplicate(b) == <<Layer("duplicate", b)>>

\* The end of the inner loop's body: the next entry, or the next directory.
\* (A loop body that ends in break leaves the directory.)
AdvanceBreak(l) == [l EXCEPT !.i = l.i + 1, !.fis = <<>>, !.j = 0]
Advance(l) ==
    IF l.j < Len(l.fis) THEN [l EXCEPT !.j = l.j + 1]
    ELSE [l EXCEPT !.i = l.i + 1, !.fis = <<>>, !.j = 0]
AfterEntry(l) == IF l.fis = <<>> THEN "dir" ELSE "entry"

\* for _, p := range ps: ioutil.ReadDir(p); an error is recorded and ends
\* the closure.
ScanDir(t) ==
    /\ pc[t] = "dir"
    /\ loc[t].i <= Len(loc[t].ps)
    /\ LET p == loc[t].ps[loc[t].i]
       IN  IF ~ReadDirOk(p)
           THEN /\ pkgErr' = ErrReadDir(p)
                /\ pc' = [pc EXCEPT ![t] = "unlock"]
                /\ UNCHANGED loc
           ELSE LET fis == ReadDir(p)
                    l == IF fis = <<>>
                         THEN [loc[t] EXCEPT !.i = loc[t].i + 1]
                         ELSE [loc[t] EXCEPT !.fis = fis, !.j = 1]
                IN  /\ loc' = [loc EXCEPT ![t] = l]
                    /\ pc' = [pc EXCEPT ![t] = AfterEntry(l)]
                    /\ UNCHANGED pkgErr
    /\ UNCHANGED <<env, fs, changes, done, mu, pkgVal, call, ret, scans>>

\* if result[b] != nil.  (Without the test a later file replaces an earlier.)
IsDuplicateNever(result, b) == FALSE
IsDuplicate(result, b) == ~MapGet(result, b).isNil

\* What a failed ioutil.ReadFile records: nothing, the loop continues.
\* (Recording it would end the load as a failed listing does.)
ReadFailureIsFatal == <<Layer("readfile", "")>>
ReadFailure == NoErr

\* for _, fi := range fis: one entry.
ScanEntry(t) ==
    /\ pc[t] = "entry"
    /\ LET l == loc[t]
           p == l.ps[l.i]
           fi == l.fis[l.j]
           f == Join(p, fi.name)
           b == Base(f)
       IN  IF fi.isDir
           THEN /\ loc' = [loc EXCEPT ![t] = Advance(l)]
                /\ pc' = [pc EXCEPT ![t] = AfterEntry(Advance(l))]
                /\ UNCHANGED pkgErr
           ELSE IF IsDuplicate(l.result, b)
           THEN /\ pkgErr' = ErrDuplicate(b)
                /\ pc' = [pc EXCEPT ![t] = "unlock"]
                /\ UNCHANGED loc
           ELSE IF ~ReadFileOk(f)
           THEN IF ReadFailure = NoErr
                THEN /\ loc' = [loc EXCEPT ![t] = Advance(l)]
                     /\ pc' = [pc EXCEPT ![t] = AfterEntry(Advance(l))]
                     /\ UNCHANGED pkgErr
                ELSE /\ pkgErr' = ReadFailure
                     /\ pc' = [pc EXCEPT ![t] = "unlock"]
                     /\ UNCHANGED loc
           ELSE LET l2 == Advance([l EXCEPT !.result = MapPut(l.result, b, ReadFile(f))])
                IN  /\ loc' = [loc EXCEPT ![t] = l2]
                    /\ pc' = [pc EXCEPT ![t] = AfterEntry(l2)]
                    /\ UNCHANGED pkgErr
    /\ UNCHANGED <<env, fs, changes, done, mu, pkgVal, call, ret, scans>>

\* pkgVal = result, after the last directory.
ScanPublish(t) ==
    /\ pc[t] = "dir"
    /\ loc[t].i > Len(loc[t].ps)
    /\ pkgVal' = loc[t].result
    /\ pc' = [pc EXCEPT ![t] = "unlock"]
    /\ UNCHANGED <<env, fs, changes, done, mu, pkgErr, call, ret, loc, scans>>

-----------------------------------------------------------------------------
\* Load's return and the accessors.

\* Load, after pkgOnce.Do: the recorded error wrapped, or nil.  (A Load
\* that drops the recorded error returns nil always.)
LoadErrorDropped == NoErr
LoadError == IF pkgErr # NoErr THEN Wrap(Layer("load", ""), pkgErr) ELSE NoErr

\* Bytes, when Load failed: the load error wrapped with the key.
GetError(n, err) == Wrap(Layer("get", n), err)

\* What an accessor returns when Bytes returned (b, err).
Finish(c, b, err) ==
    CASE c.op = "Bytes" -> Returned(c, err, ValBytes(b))
      [] c.op = "String" ->
            IF err # NoErr THEN Returned(c, err, ValString(NilBytes))
            ELSE Returned(c, NoErr, ValString(b))
      [] c.op = "Userinfo" ->
            IF err # NoErr THEN Returned(c, err, ValNilPtr)
            ELSE LET u == UnmarshalUserinfo(b)
                 IN  IF u.err
                     THEN Returned(c, <<Layer("unmarshal", c.n), Layer("json", "")>>, ValNilPtr)
                     ELSE IF u.ui.Password = ""
                     THEN Returned(c, NoErr, ValUser(u.ui.Username))
                     ELSE Returned(c, NoErr, ValUserPassword(u.ui.Username, u.ui.Password))
      [] c.op = "Url" ->
            IF err # NoErr THEN Returned(c, err, ValNilPtr)
            ELSE IF ~UrlParseOk(b.data)
            THEN Returned(c, <<Layer("unmarshal", c.n), Layer("url", "")>>, ValNilPtr)
            ELSE Returned(c, NoErr, ValUrl(b.data))
      [] c.op = "InterfaceJson" ->
            IF err # NoErr THEN Returned(c, err, NoVal)
            ELSE IF ~UnmarshalJsonOk(b)
            THEN Returned(c, <<Layer("unmarshal", c.n), Layer("json", "")>>, NoVal)
            ELSE Returned(c, NoErr, NoVal)
      [] c.op = "InterfaceYaml" ->
            IF err # NoErr THEN Returned(c, err, NoVal)
            ELSE IF ~UnmarshalYamlOk(b)
            THEN Returned(c, <<Layer("unmarshal", c.n), Layer("yaml", "")>>, NoVal)
            ELSE Returned(c, NoErr, NoVal)

\* if pkgErr != nil { return wrapped }; return nil.  Load returns to its
\* caller; in an accessor Bytes returns (nil, wrapped) on an error and goes
\* on to the lookup otherwise.
LoadReturn(t) ==
    /\ pc[t] = "check"
    /\ LET err == LoadError
       IN  IF call[t].op = "Load"
           THEN /\ ret' = [ret EXCEPT ![t] = Returned(call[t], err, NoVal)]
                /\ call' = [call EXCEPT ![t] = NoCall]
                /\ pc' = [pc EXCEPT ![t] = "idle"]
           ELSE IF err # NoErr
           THEN /\ ret' = [ret EXCEPT ![t] =
                              Finish(call[t], NilBytes, GetError(call[t].n, err))]
                /\ call' = [call EXCEPT ![t] = NoCall]
                /\ pc' = [pc EXCEPT ![t] = "idle"]
           ELSE /\ pc' = [pc EXCEPT ![t] = "lookup"]
                /\ UNCHANGED <<ret, call>>
    /\ UNCHANGED <<env, fs, changes, done, mu, pkgVal, pkgErr, loc, scans>>

\* if v, ok := pkgVal[n]; ok.  (A test of len(v) instead would miss an
\* empty file.)
FoundNonEmpty(m, n) == MapHas(m, n) /\ MapGet(m, n).data # <<>>
Found(m, n) == MapHas(m, n)

\* Bytes: the lookup in pkgVal, and the rest of the accessor.
Lookup(t) ==
    /\ pc[t] = "lookup"
    /\ LET n == call[t].n
       IN  ret' = [ret EXCEPT ![t] =
                      IF Found(pkgVal, n)
                      THEN Finish(call[t], MapGet(pkgVal, n), NoErr)
                      ELSE Finish(call[t], NilBytes, ErrNotExist)]
    /\ call' = [call EXCEPT ![t] = NoCall]
    /\ pc' = [pc EXCEPT ![t] = "idle"]
    /\ UNCHANGED <<env, fs, changes, done, mu, pkgVal, pkgErr, loc, scans>>

-----------------------------------------------------------------------------
\* The world outside the package, once the load has completed: files are
\* removed, a missing directory is created, CONFIG_PATH is set again.

DirLists == UNION {[1..k -> DirIds] : k \in 0..MaxPathLen}
\* The directory lists up to renaming of the directories.
CanonLists == {ds \in DirLists : ds = <<>> \/ ds[1] = "d1"}
PathStrings == {JoinList(ds) : ds \in CanonLists} \cup {<<"d1", ListSep>>}

\* The values CONFIG_PATH is set to afterwards: empty, or the first directory.
EnvChoices == {<<>>, <<"d1">>}

Remove(d, n) ==
    /\ done
    /\ changes < MaxChanges
    /\ fs[d].ok
    /\ fs[d].ent[n].kind # "none"
    /\ fs' = [fs EXCEPT ![d].ent[n] = NoEntry]
    /\ changes' = changes + 1
    /\ UNCHANGED <<env, done, mu, pkgVal, pkgErr, pc, call, ret, loc, scans>>

Mkdir(d) ==
    /\ done
    /\ changes < MaxChanges
    /\ ~fs[d].ok
    /\ fs' = [fs EXCEPT ![d] = Dir([n \in Names |-> NoEntry])]
    /\ changes' = changes + 1
    /\ UNCHANGED <<env, done, mu, pkgVal, pkgErr, pc, call, ret, loc, scans>>

Setenv(p) ==
    /\ done
    /\ changes < MaxChanges
    /\ ~(env.set /\ env.val = p)
    /\ env' = [set |-> TRUE, val |-> p]
    /\ changes' = changes + 1
    /\ UNCHANGED <<fs, done, mu, pkgVal, pkgErr, pc, call, ret, loc, scans>>

-----------------------------------------------------------------------------
\* Initial states: the process has started, nothing is loaded.

\* What a directory holds under each name: in d1 a file holds SUser, in d2
\* the empty text.
ContentIn(d) == IF d = "d1" THEN SUser ELSE SEmptyFile
EntriesIn(d) == {NoEntry, SubDir, Unreadable, File(ContentIn(d))}
DirStates(d) == {MissingDir} \cup {Dir(e) : e \in [Names -> EntriesIn(d)]}

OnPath(d, p) == \E i \in 1..Len(p) : p[i] = d

MkFs(s1, s2) == [d \in FsNames |-> IF d = "d1" THEN s1 ELSE IF d = "d2" THEN s2 ELSE MissingDir]
MkEnv(p) == [set |-> TRUE, val |-> p]
Unset == [set |-> FALSE, val |-> <<>>]

\* One caller: every search path, every directory state of the directories
\* on it.
ScanWorlds ==
    {[env |-> Unset, fs |-> MkFs(MissingDir, MissingDir)]}
    \cup {[env |-> MkEnv(p), fs |-> MkFs(s1, s2)] :
            p \in PathStrings, s1 \in DirStates("d1"), s2 \in DirStates("d2")}

Canonical(w) ==
    /\ ~OnPath("d1", w.env.val) => w.fs["d1"] = MissingDir
    /\ ~OnPath("d2", w.env.val) => w.fs["d2"] = MissingDir

\* One caller: one directory holding one file "a" of each sample content.
OnlyA(s) == Dir([n \in Names |-> IF n = "a" THEN File(s) ELSE NoEntry])
DecodeWorlds ==
    {[env |-> MkEnv(<<"d1">>), fs |-> MkFs(OnlyA(s), MissingDir)] : s \in Samples}

\* Several callers: d1 holds the text file "a"; d2 is missing, or holds a second
\* "a", or a file, an unreadable file or a subdirectory "b".
OnlyB(e) == Dir([n \in Names |-> IF n = "b" THEN e ELSE NoEntry])
SharedWorlds ==
    {[env |-> MkEnv(<<"d1", ListSep, "d2">>), fs |-> MkFs(OnlyA(SString), s2)] :
        s2 \in {MissingDir, OnlyA(SEmptyFile), OnlyB(File(SEmptyFile)),
                OnlyB(Unreadable), OnlyB(SubDir)}}

Start(k, w) ==
    /\ env = w.env
    /\ fs = w.fs
    /\ changes = 0
    /\ done = FALSE
    /\ mu = NoCaller
    /\ pkgVal = NilMap
    /\ pkgErr = NoErr
    /\ pc = [t \in 1..k |-> "idle"]
    /\ call = [t \in 1..k |-> NoCall]
    /\ ret = [t \in 1..k |-> NoRet]
    /\ loc = [t \in 1..k |-> NoLoc]
    /\ scans = <<>>

Init ==
    \/ \E w \in {x \in ScanWorlds : Canonical(x)} \cup DecodeWorlds : Start(1, w)
    \/ \E k \in 2..NumCallers : \E w \in SharedWorlds : Start(k, w)

\* The worlds whose load fails on a listing, fails on a duplicate, succeeds.
ChangingWorlds ==
    {w \in SharedWorlds :
        w.fs["d2"] \in {MissingDir, OnlyA(SEmptyFile), OnlyB(Unreadable)}}

InitChanging == \E k \in 1..NumCallers : \E w \in ChangingWorlds : Start(k, w)

Next ==
    \/ \E t \in Callers : \E op \in Ops : \E n \in Names \cup {""} : Call(t, op, n)
    \/ \E t \in Callers : OnceFast(t)
    \/ \E t \in Callers : OnceLock(t)
    \/ \E t \in Callers : ScanDir(t)
    \/ \E t \in Callers : ScanEntry(t)
    \/ \E t \in Callers : ScanPublish(t)
    \/ \E t \in Callers : OnceUnlock(t)
    \/ \E t \in Callers : LoadReturn(t)
    \/ \E t \in Callers : Lookup(t)

Change ==
    \/ \E d \in DirIds : \E n \in Names : Remove(d, n)
    \/ \E d \in DirIds : Mkdir(d)
    \/ \E p \in EnvChoices : Setenv(p)

NextChanging == Next \/ Change

\* The process with its environment and filesystem left alone.
Spec == Init /\ [][Next]_vars

\* The process while files and CONFIG_PATH change after the load.
SpecChanging == InitChanging /\ [][NextChanging]_vars

-----------------------------------------------------------------------------
\* What the claims speak of.

\* The directories the scan visits, in order.
ScanPath == SplitList(Path)
Positions == 1..Len(ScanPath)
Listable(i) == fs[ScanPath[i]].ok
EntryAt(i, n) == fs[ScanPath[i]].ent[n]
\* A non-directory entry n in the i-th directory, and one that can be read.
NonDirAt(i, n) == Listable(i) /\ EntryAt(i, n).kind = "file"
ReadableAt(i, n) == NonDirAt(i, n) /\ EntryAt(i, n).ok
SubDirAt(i, n) == Listable(i) /\ EntryAt(i, n).kind = "dir"
\* The scan gets as far as listing the i-th directory.
ListedUpTo(i) == \A h \in 1..i : Listable(h)
\* Two entries of the same base name: the later one is at (i, n).
SharedNameAt(i, n) == NonDirAt(i, n) /\ \E h \in 1..(i - 1) : NonDirAt(h, n)
\* The entry at (i, n) finds its name in the store being built.
DuplicateAt(i, n) == NonDirAt(i, n) /\ \E h \in 1..(i - 1) : ReadableAt(h, n)

HasReturned(t) == ret[t] # NoRet
InClosure(t) == pc[t] \in {"dir", "entry"}
IsDuplicateError(e) == e # NoErr /\ e[1].k = "duplicate"
IsReadDirError(e) == e # NoErr /\ e[1].k = "readdir"
Succeeded == done /\ pkgErr = NoErr
\* The zero value an accessor returns beside an error.
ZeroValue(op) ==
    CASE op = "Bytes" -> ValBytes(NilBytes)
      [] op = "String" -> ValString(NilBytes)
      [] op \in {"Userinfo", "Url"} -> ValNilPtr
      [] OTHER -> NoVal

\* C1: whatever the callers and the interleaving of Load and accessor
\* calls, the closure of Load is entered at most once, and exactly once by
\* the time any call is past pkgOnce.Do or has returned.
C1_ScanExactlyOnce ==
    /\ Len(scans) <= 1
    /\ \A t \in Callers :
          (pc[t] \in {"check", "lookup"} \/ HasReturned(t)) => Len(scans) = 1
    /\ done => Len(scans) = 1

\* C1 witness: two callers have returned, the one scan ran under an accessor.
C1_Witness ==
    /\ Cardinality(Callers) >= 2
    /\ \A t \in Callers : HasReturned(t)
    /\ Len(scans) = 1
    /\ scans[1] \in Accessors

\* C2: no call is past pkgOnce.Do, and none has returned, before the scan
\* has run to its end; a Load that has returned gave the recorded outcome;
\* the lookup and a successful return happen only on a published store.
C2_ReturnAfterScan ==
    \A t \in Callers :
        /\ (pc[t] \in {"check", "lookup"} \/ HasReturned(t)) =>
              /\ Len(scans) >= 1
              /\ \A u \in Callers : ~InClosure(u)
        /\ (HasReturned(t) /\ ret[t].op = "Load") => ret[t].err = LoadError
        /\ (HasReturned(t) /\ ret[t].err = NoErr) => (pkgErr = NoErr /\ ~pkgVal.isNil)
        /\ pc[t] = "lookup" => (pkgErr = NoErr /\ ~pkgVal.isNil)

\* C2 witness: a caller waits for the mutex while another is in the scan.
C2_Witness ==
    \E t, u \in Callers : pc[t] = "lock" /\ pc[u] = "entry" /\ mu = u

\* C3 as claimed: whenever two non-directory entries found along the search
\* path share a base name, the load ends in a duplicate-name error.
C3_AnySharedNameFails ==
    done =>
        \A i \in Positions : \A n \in Names :
            (ListedUpTo(i) /\ SharedNameAt(i, n)) => IsDuplicateError(pkgErr)

\* C3 amended: when the scan comes to a non-directory entry whose base name
\* an earlier entry, read successfully, has put in the store, the load ends
\* in a duplicate-name error; a duplicate-name error names such an entry;
\* and after a successful load no name has two readable entries anywhere on
\* the search path.
C3_StoredNameFails ==
    done =>
        /\ \A i \in Positions : \A n \in Names :
              (ListedUpTo(i) /\ DuplicateAt(i, n)) => IsDuplicateError(pkgErr)
        /\ IsDuplicateError(pkgErr) =>
              \E i \in Positions : ListedUpTo(i) /\ DuplicateAt(i, pkgErr[1].a)
        /\ pkgErr = NoErr =>
              \A n \in Names : \A i, h \in Positions :
                  (ReadableAt(i, n) /\ ReadableAt(h, n)) => i = h

\* C3 witness: the load failed on a name held by two different directories.
C3_Witness ==
    /\ done
    /\ IsDuplicateError(pkgErr)
    /\ \E i, h \in Positions :
          /\ ScanPath[i] # ScanPath[h]
          /\ ReadableAt(h, pkgErr[1].a)
          /\ NonDirAt(i, pkgErr[1].a)

\* C4: when the load fails the store stays unpublished, and every accessor
\* call returns the load error wrapped with its key, and its zero value.
C4_NoPartialStore ==
    pkgErr # NoErr =>
        /\ pkgVal = NilMap
        /\ \A t \in Callers :
              (HasReturned(t) /\ ret[t].op \in Accessors) =>
                  /\ ret[t].err = GetError(ret[t].n, Wrap(Layer("load", ""), pkgErr))
                  /\ ret[t].val = ZeroValue(ret[t].op)

\* C4 witness: the load failed on a duplicate of a name read before, and a
\* Bytes call for that name has returned.
C4_Witness ==
    /\ IsDuplicateError(pkgErr)
    /\ \E t \in Callers :
          /\ HasReturned(t)
          /\ ret[t].op = "Bytes"
          /\ ret[t].n = pkgErr[1].a

\* C5: once an error is recorded it stays as it is, the closure is not
\* entered again, the store stays unpublished, and every Load that returns
\* gives that error wrapped, whatever happens to the files and CONFIG_PATH.
C5_ErrorIsTerminal ==
    [][pkgErr # NoErr =>
          /\ pkgErr' = pkgErr
          /\ scans' = scans
          /\ pkgVal' = NilMap
          /\ \A t \in Callers :
                (ret'[t] # ret[t] /\ ret'[t].op = "Load") =>
                    ret'[t].err = Wrap(Layer("load", ""), pkgErr)]_vars

\* C5 witness: the directory whose listing failed exists by now, and a Load
\* has returned the error.
C5_Witness ==
    /\ IsReadDirError(pkgErr)
    /\ changes > 0
    /\ fs[pkgErr[1].a].ok
    /\ \E t \in Callers : HasReturned(t) /\ ret[t].op = "Load" /\ ret[t].err # NoErr

\* C6 as claimed: after a successful load Bytes and String of the base name
\* of any regular-file entry on the search path return that file's content,
\* and no name of a subdirectory is a key of the store.
C6_EveryFileRetrievable ==
    Succeeded =>
        /\ \A t \in Callers : \A i \in Positions :
              (HasReturned(t) /\ ret[t].op \in {"Bytes", "String"}
                  /\ NonDirAt(i, ret[t].n)) =>
                      /\ ret[t].err = NoErr
                      /\ ret[t].val.data = EntryAt(i, ret[t].n).data
        /\ \A n \in Names : \A i \in Positions : SubDirAt(i, n) => ~MapHas(pkgVal, n)

\* C6 amended: after a successful load Bytes and String of the base name of
\* any regular-file entry that could be read return that file's content
\* (the store holds it under that name); a name is a key of the store only
\* if a readable file on the search path has it, so a subdirectory adds no
\* key and causes no error.
C6_ReadableFileRetrievable ==
    Succeeded =>
        /\ \A n \in Names : \A i \in Positions :
              ReadableAt(i, n) =>
                  /\ MapHas(pkgVal, n)
                  /\ MapGet(pkgVal, n) = BytesOf(EntryAt(i, n).data)
        /\ \A n \in Keys(pkgVal) : \E i \in Positions : ReadableAt(i, n)
        /\ \A t \in Callers : \A i \in Positions :
              (HasReturned(t) /\ ret[t].op \in {"Bytes", "String"}
                  /\ ReadableAt(i, ret[t].n)) =>
                  /\ ret[t].op = "Bytes" =>
                        (ret[t].err = NoErr
                            /\ ret[t].val = ValBytes(BytesOf(EntryAt(i, ret[t].n).data)))
                  /\ ret[t].op = "String" =>
                        (ret[t].err = NoErr
                            /\ ret[t].val = ValString(BytesOf(EntryAt(i, ret[t].n).data)))

\* C6 witness: the load succeeded past a subdirectory, and Bytes has
\* returned the content of the second file of a directory.
C6_Witness ==
    /\ Succeeded
    /\ \E i \in Positions : \E n \in Names : SubDirAt(i, n)
    /\ \E t \in Callers : \E i \in Positions :
          /\ HasReturned(t)
          /\ ret[t].op = "Bytes"
          /\ ret[t].n = NameOrder[2]
          /\ ReadableAt(i, ret[t].n)
          /\ ReadableAt(i, NameOrder[1])
          /\ ret[t].val.data = SUser

\* C7: the load fails exactly when the listing of a directory on the search
\* path fails or an entry finds its name in the store, and with one of
\* these two errors; after a successful load a name whose entries are all
\* unreadable is no key, and every name with a readable entry is one.
C7_UnreadableSkipped ==
    done =>
        /\ pkgErr # NoErr <=>
              \/ \E i \in Positions : ~Listable(i)
              \/ \E i \in Positions : \E n \in Names : DuplicateAt(i, n)
        /\ pkgErr # NoErr => (IsReadDirError(pkgErr) \/ IsDuplicateError(pkgErr))
        /\ pkgErr = NoErr =>
              \A n \in Names :
                  MapHas(pkgVal, n) <=> \E i \in Positions : ReadableAt(i, n)

\* C7 witness: the load succeeded, an unreadable file was passed over and a
\* readable one after it is in the store.
C7_Witness ==
    /\ Succeeded
    /\ \E i \in Positions :
          /\ NonDirAt(i, NameOrder[1]) /\ ~ReadableAt(i, NameOrder[1])
          /\ ReadableAt(i, NameOrder[2])
          /\ ~MapHas(pkgVal, NameOrder[1])
          /\ MapHas(pkgVal, NameOrder[2])

\* C8: after a successful load Bytes and String of a name that is no key of
\* the store return os.ErrNotExist with nil bytes or the empty string, and
\* of a key they return its content, empty or not, and no error.
C8_NotFoundIffAbsent ==
    pkgErr = NoErr =>
        \A t \in Callers :
            (HasReturned(t) /\ ret[t].op \in {"Bytes", "String"}) =>
                IF ret[t].n \in Keys(pkgVal)
                THEN /\ ret[t].err = NoErr
                     /\ ret[t].val.tag = (IF ret[t].op = "Bytes" THEN "bytes" ELSE "string")
                     /\ ret[t].val.data = MapGet(pkgVal, ret[t].n).data
                ELSE /\ ret[t].err = ErrNotExist
                     /\ ret[t].val = ZeroValue(ret[t].op)

\* C8 witness: the store has a key, and String of another name has returned
\* not-found.
C8_Witness ==
    /\ Succeeded
    /\ Keys(pkgVal) # {}
    /\ \E t \in Callers :
          /\ HasReturned(t)
          /\ ret[t].op = "String"
          /\ ret[t].n \notin Keys(pkgVal)
          /\ ret[t].err = ErrNotExist

\* C9: once the load has completed, no call and no change of the files or
\* of CONFIG_PATH changes the store, the recorded error, the done flag or
\* the number of scans.
C9_StoreImmutable ==
    [][done =>
          /\ pkgVal' = pkgVal
          /\ pkgErr' = pkgErr
          /\ scans' = scans
          /\ done']_vars

\* C9 witness: after the load a file was changed, one call has failed to
\* decode and another has returned not-found.
C9_Witness ==
    /\ Succeeded
    /\ changes > 0
    /\ \E t, u \in Callers :
          /\ HasReturned(t) /\ ret[t].err # NoErr /\ ret[t].err[1].k = "unmarshal"
          /\ HasReturned(u) /\ ret[u].err = ErrNotExist

\* The shape Userinfo is documented to expect: a JSON object with a string
\* username and, if present, a string password.
UserinfoShape(d) ==
    LET p == JsonParse(d)
    IN  /\ p.ok
        /\ p.kind = "obj"
        /\ \E i \in 1..Len(p.ms) : p.ms[i].k = "username" /\ p.ms[i].v.t = "str"
        /\ \A i \in 1..Len(p.ms) : p.ms[i].k = "password" => p.ms[i].v.t = "str"
\* The last value a key has in a text of that shape, "" if it has none.
RECURSIVE LastValue(_, _, _)
LastValue(ms, k, i) ==
    IF i = 0 THEN ""
    ELSE IF ms[i].k = k THEN ms[i].v.v
    ELSE LastValue(ms, k, i - 1)

\* C10: Userinfo of a stored value returns the username-only credential when
\* the content is an object of that shape without a password or with an
\* empty one, the username and password credential when the password is not
\* empty, and an error and no credential when the content is not of that
\* shape, the username being required.
C10_UsernameRequired ==
    Succeeded =>
        \A t \in Callers :
            (HasReturned(t) /\ ret[t].op = "Userinfo" /\ MapHas(pkgVal, ret[t].n)) =>
                LET d == MapGet(pkgVal, ret[t].n).data
                    ms == JsonParse(d).ms
                    u == LastValue(ms, "username", Len(ms))
                    pw == LastValue(ms, "password", Len(ms))
                IN  IF UserinfoShape(d)
                    THEN /\ ret[t].err = NoErr
                         /\ ret[t].val = IF pw = "" THEN ValUser(u) ELSE ValUserPassword(u, pw)
                    ELSE /\ ret[t].err # NoErr
                         /\ ret[t].val = ValNilPtr

====
